---- MODULE Spec2Model ----
(***************************************************************************)
(* Model of the resource-availability worker                               *)
(* (resource-availability/src/resource_availability.py): parse_config,     *)
(* check_dns, check_url (the manual redirect loop), run_dns_test,          *)
(* run_availability_test, run_tests_for_url, create_junit_report and the   *)
(* __main__ block; and of the input-echo worker (src/input_echo_test.py):  *)
(* get_env_test, check_emptiness_test, skipped_test, create_junit_report   *)
(* and its __main__ block, which runs under SpecEcho.                      *)
(*                                                                         *)
(* Strings built with f-strings are records: the "text" field is the fixed *)
(* part of the string and the other fields are the interpolated values, so *)
(* two messages are equal exactly when the formatted strings are equal.    *)
(* Python's None is the record None.  Times are whole ticks.               *)
(***************************************************************************)
EXTENDS Integers, Sequences, FiniteSets, TLC

\* ------------------------------------------------------------------ bounds
MaxUrls == 2          \* entries in the TEST_URLS list
MaxRedirectsCfg == 1  \* largest TEST_MAX-REDIRECTS value explored
MaxTimeout == 1       \* largest TEST_TIMEOUT value explored (ticks)
MaxDelay == 1         \* longest time one HTTP(S) request may take (ticks)
MaxDnsDelay == 0      \* longest time one DNS test may take (ticks)

\* ------------------------------------------------------------------ values
None == [text |-> "None"]
Str(s) == [text |-> s]
NoStatus == 0 - 1

\* Python truthiness of an optional string
Truthy(m) == m # None /\ m # Str("")

\* A URL is scheme://host/path; host "" is a URL without a hostname.
Url(s, h, p) == [scheme |-> s, host |-> h, path |-> p]
UA == Url("http", "a", "/")
UN == Url("", "", "nohost")
Blank == Url("", "", "")
NoUrl == Url("", "", "none")

Entries == {UA, UN, Blank}
Bool == {TRUE, FALSE}

RECURSIVE SeqsUpTo(_, _)
SeqsUpTo(S, n) ==
  IF n = 0 THEN {<<>>}
  ELSE LET shorter == SeqsUpTo(S, n - 1)
       IN shorter \cup {Append(q, e) : q \in {r \in shorter : Len(r) = n - 1}, e \in S}

\* The environment: TEST_URLS is unset or a comma separated list of entries.
Unset == <<Url("", "", "unset")>>
Environments ==
  [TEST_URLS : {Unset} \cup SeqsUpTo(Entries, MaxUrls),
   max_redirects : (0 - 1) .. MaxRedirectsCfg,
   timeout : 1 .. MaxTimeout,
   check_http : Bool,
   check_https : Bool,
   verify_ssl : Bool]

\* ------------------------------------------------------------ parse_config
IsEntry(u) == u # Blank

\* raw_urls.strip("[]").split(","), each entry stripped, blank entries dropped
SplitUrls(raw) == SelectSeq(raw, IsEntry)

parse_config(e) ==
  [urls |-> SplitUrls(e.TEST_URLS),
   max_redirects |-> e.max_redirects,
   timeout |-> e.timeout,
   check_http |-> e.check_http,
   check_https |-> e.check_https,
   verify_ssl |-> e.verify_ssl]

\* --------------------------------------------------------------- check_dns
\* urllib.parse.urlparse(url).hostname
Hostname(u) == IF u.host = "" THEN None ELSE Str(u.host)

\* What socket.gethostbyname does with a hostname: an address, a
\* socket.gaierror, or another exception (UnicodeError for a label that is
\* empty or longer than 63 characters).
ResolverOutcomes == {"address", "gaierror", "UnicodeError"}
IpOf(hostname) == [text |-> "ip", of |-> hostname]

check_dns_raises(hostname, outcome) == hostname # None /\ outcome = "UnicodeError"

\* Variant without the test for a missing hostname
check_dns_NoHostCheck(hostname, outcome) ==
  IF outcome = "gaierror"
  THEN [ip |-> None, error |-> Str("[Errno -2] Name or service not known")]
  ELSE [ip |-> IpOf(hostname), error |-> None]

check_dns(hostname, outcome) ==
  IF hostname = None
  THEN [ip |-> None, error |-> Str("Could not extract hostname from URL")]
  ELSE IF outcome = "gaierror"
       THEN [ip |-> None, error |-> Str("[Errno -2] Name or service not known")]
       ELSE [ip |-> IpOf(hostname), error |-> None]

\* ------------------------------------------------------------ skipped_test
skipped_test(case_name, reason) ==
  [case_name |-> case_name,
   duration |-> 0,
   error |-> None,
   failure_message |-> None,
   failure_text |-> None,
   properties |-> <<>>,
   skipped |-> TRUE,
   skipped_message |-> reason]

CaseName(kind, url) == [text |-> kind, url |-> url]

\* ------------------------------------------------------------ run_dns_test
run_dns_test(url, outcome, duration) ==
  LET hostname == Hostname(url)
      dns == check_dns(hostname, outcome)
      failed == ~Truthy(dns.ip)
  IN [case_name |-> CaseName("dns_resolution", url),
      duration |-> duration,
      error |-> None,
      failure_message |->
        IF failed THEN [text |-> "DNS resolution failed for", hostname |-> hostname]
        ELSE None,
      failure_text |-> IF failed THEN dns.error ELSE None,
      properties |-> << <<"url", url>>, <<"hostname", hostname>> >>,
      skipped |-> FALSE,
      skipped_message |-> Str("")]

\* --------------------------------------------------------------- check_url
\* What one session.get(current_url, allow_redirects=False) can produce.
NoLocation == [kind |-> "none"]
RelLocation(p) == [kind |-> "path", path |-> p]
AbsLocation(u) == [kind |-> "abs", url |-> u]
BadLocation == [kind |-> "bad"]
Locations ==
  {NoLocation, RelLocation("/r"), BadLocation,
   AbsLocation(Url("http", "a", "/")), AbsLocation(Url("https", "a", "/"))}

Response(code, loc) == [kind |-> "response", status_code |-> code, location |-> loc]
TimeoutExc == [kind |-> "Timeout", status_code |-> NoStatus, location |-> NoLocation]
ConnectionExc == [kind |-> "ConnectionError", status_code |-> NoStatus, location |-> NoLocation]
Responses ==
  {Response(200, NoLocation), Response(404, NoLocation), Response(100, NoLocation)}
    \cup {Response(302, l) : l \in Locations}
    \cup {TimeoutExc, ConnectionExc}

\* urllib.parse.urljoin(current_url, location) for a location that parses
urljoin(base, loc) ==
  IF loc.kind = "abs" THEN loc.url ELSE [base EXCEPT !.path = loc.path]

\* Variant that passes the configured flag on every hop
hop_verify_Global(url, verify_ssl) == verify_ssl

\* verify= argument of the request for one hop
hop_verify(url, verify_ssl) == IF url.scheme = "https" THEN verify_ssl ELSE TRUE

Return(status, url, t, err, crossed) ==
  [status |-> status, final_url |-> url, elapsed |-> t, error |-> err,
   crossed_scheme_boundary |-> crossed]

\* Variants of the redirect-limit test: one redirect too few, one too many
LimitReached_OneEarly(followed, max_redirects) == followed + 1 >= max_redirects
LimitReached_OneLate(followed, max_redirects) == followed > max_redirects

\* Variant that compares the counter with == instead of >=
LimitReached_Equal(followed, max_redirects) == followed = max_redirects

\* The redirect-limit test of the loop
LimitReached(followed, max_redirects) == followed >= max_redirects

\* Variant that only stops a downgrade from https
CrossesBoundary_HttpsOnly(next_scheme, initial) == initial = "https" /\ next_scheme # initial

\* The scheme-boundary test of the loop
CrossesBoundary(next_scheme, initial) == next_scheme # initial

\* Variant without the except clause for requests.exceptions.Timeout
TransportError_NoTimeoutClause(r, timeout) == Str("Connection refused")

\* The error text of a transport failure: the two except clauses
TransportError(r, timeout) ==
  IF r.kind = "Timeout"
  THEN [text |-> "Request timed out after", timeout |-> timeout]
  ELSE Str("Connection refused")

\* Variant that tests the redirect limit before the scheme boundary
FollowRedirect_LimitFirst(current, initial, followed, max_redirects, code, next_url, t) ==
  IF followed >= max_redirects
  THEN [do |-> "return", next |-> current,
        ret |-> Return(code, current, t,
                       [text |-> "Redirect limit reached", limit |-> max_redirects,
                        status |-> code, url |-> current], FALSE)]
  ELSE IF next_url.scheme # initial
  THEN [do |-> "return", next |-> current,
        ret |-> Return(code, next_url, t, None, TRUE)]
  ELSE [do |-> "continue", next |-> next_url,
        ret |-> Return(code, next_url, t, None, FALSE)]

\* Variant that returns the next URL when the redirect limit is reached
FollowRedirect_LimitReturnsNext(current, initial, followed, max_redirects, code, next_url, t) ==
  IF CrossesBoundary(next_url.scheme, initial)
  THEN [do |-> "return", next |-> current,
        ret |-> Return(code, next_url, t, None, TRUE)]
  ELSE IF LimitReached(followed, max_redirects)
  THEN [do |-> "return", next |-> current,
        ret |-> Return(code, next_url, t,
                       [text |-> "Redirect limit reached", limit |-> max_redirects,
                        status |-> code, url |-> current], FALSE)]
  ELSE [do |-> "continue", next |-> next_url,
        ret |-> Return(code, next_url, t, None, FALSE)]

\* A 3xx response whose Location resolved to next_url: the scheme-boundary
\* test, then the redirect-limit test, then the advance to next_url.
FollowRedirect(current, initial, followed, max_redirects, code, next_url, t) ==
  IF CrossesBoundary(next_url.scheme, initial)
  THEN [do |-> "return", next |-> current,
        ret |-> Return(code, next_url, t, None, TRUE)]
  ELSE IF LimitReached(followed, max_redirects)
  THEN [do |-> "return", next |-> current,
        ret |-> Return(code, current, t,
                       [text |-> "Redirect limit reached", limit |-> max_redirects,
                        status |-> code, url |-> current], FALSE)]
  ELSE [do |-> "continue", next |-> next_url,
        ret |-> Return(code, next_url, t, None, FALSE)]

\* Variant of the success test without its lower bound
Is2xx_NoLowerBound(code) == code < 300

\* 200 <= response.status_code < 300
Is2xx(code) == 200 <= code /\ code < 300

\* 300 <= response.status_code < 400
Is3xx(code) == 300 <= code /\ code < 400

\* One iteration of the while loop, for the response r received at time t.
\* The result is what the iteration does: "continue" with the next URL,
\* "return" with the returned tuple, or "raise" for an exception the
\* function does not catch (urljoin raising ValueError).
check_url_step(current, initial, followed, max_redirects, timeout, r, t) ==
  IF r.kind # "response"
  THEN [do |-> "return", next |-> current,
        ret |-> Return(NoStatus, current, t, TransportError(r, timeout), FALSE)]
  ELSE IF Is2xx(r.status_code)
  THEN [do |-> "return", next |-> current,
        ret |-> Return(r.status_code, current, t, None, FALSE)]
  ELSE IF Is3xx(r.status_code)
  THEN IF r.location = NoLocation
       THEN [do |-> "return", next |-> current,
             ret |-> Return(r.status_code, current, t,
                            [text |-> "Redirect response had no Location header",
                             status |-> r.status_code], FALSE)]
       ELSE IF r.location = BadLocation
       THEN [do |-> "raise", next |-> current,
             ret |-> Return(NoStatus, current, t, Str("ValueError"), FALSE)]
       ELSE FollowRedirect(current, initial, followed, max_redirects,
                           r.status_code, urljoin(current, r.location), t)
  ELSE [do |-> "return", next |-> current,
        ret |-> Return(r.status_code, current, t,
                       [text |-> "Unexpected status code", status |-> r.status_code],
                       FALSE)]

\* --------------------------------------------------- run_availability_test
\* parsed._replace(scheme=scheme).geturl()
TargetUrl(url, scheme) == [url EXCEPT !.scheme = scheme]

\* Variant that records the configured flag for both schemes
effective_verify_ssl_Global(scheme, verify_ssl) == verify_ssl

\* verify_ssl if scheme == "https" else True
effective_verify_ssl(scheme, verify_ssl) == IF scheme = "https" THEN verify_ssl ELSE TRUE

\* str.upper() on the two scheme names the program forces
upper(s) == IF s = "http" THEN "HTTP" ELSE IF s = "https" THEN "HTTPS" ELSE s

\* Variant that looks at the error message before the elapsed time
Classify_ErrorFirst(scheme, timeout, ret) ==
  IF ret.crossed_scheme_boundary
  THEN [error |-> None, failure_message |-> None, failure_text |-> None]
  ELSE IF Truthy(ret.error)
  THEN [error |-> None,
        failure_message |-> [text |-> "availability check failed", scheme |-> upper(scheme)],
        failure_text |-> ret.error]
  ELSE IF ret.elapsed >= timeout
  THEN [error |-> [text |-> "Response time exceeded timeout",
                   elapsed |-> ret.elapsed, timeout |-> timeout],
        failure_message |-> None, failure_text |-> None]
  ELSE [error |-> None, failure_message |-> None, failure_text |-> None]

\* Variant whose second rule is an `if` instead of an `elif`
Classify_BothRules(scheme, timeout, ret) ==
  IF ret.crossed_scheme_boundary
  THEN [error |-> None, failure_message |-> None, failure_text |-> None]
  ELSE [error |-> IF ret.elapsed >= timeout
                  THEN [text |-> "Response time exceeded timeout",
                        elapsed |-> ret.elapsed, timeout |-> timeout]
                  ELSE None,
        failure_message |-> IF Truthy(ret.error)
                            THEN [text |-> "availability check failed",
                                  scheme |-> upper(scheme)]
                            ELSE None,
        failure_text |-> IF Truthy(ret.error) THEN ret.error ELSE None]

\* The classification of a check_url result into the outcome's error and
\* failure fields.
Classify(scheme, timeout, ret) ==
  IF ret.crossed_scheme_boundary
  THEN [error |-> None, failure_message |-> None, failure_text |-> None]
  ELSE IF ret.elapsed >= timeout
  THEN [error |-> [text |-> "Response time exceeded timeout",
                   elapsed |-> ret.elapsed, timeout |-> timeout],
        failure_message |-> None, failure_text |-> None]
  ELSE IF Truthy(ret.error)
  THEN [error |-> None,
        failure_message |-> [text |-> "availability check failed", scheme |-> upper(scheme)],
        failure_text |-> ret.error]
  ELSE [error |-> None, failure_message |-> None, failure_text |-> None]

run_availability_test(url, scheme, cfg, ret) ==
  LET c == Classify(scheme, cfg.timeout, ret)
  IN [case_name |-> CaseName(scheme \o "_availability", url),
      duration |-> ret.elapsed,
      error |-> c.error,
      failure_message |-> c.failure_message,
      failure_text |-> c.failure_text,
      properties |-> << <<"verify_ssl", Str(ToString(effective_verify_ssl(scheme, cfg.verify_ssl)))>> >>,
      skipped |-> FALSE,
      skipped_message |-> Str("")]

\* ------------------------------------------------------- run_tests_for_url
\* Variant that looks at the error field only
DnsFailed_ErrorOnly(dns_result) == Truthy(dns_result.error)

DnsFailed(dns_result) == Truthy(dns_result.failure_message) \/ Truthy(dns_result.error)

SkipReason == Str("Skipped due to DNS failure")

\* The HTTPS part of run_tests_for_url: where control goes after the HTTP
\* part, and the results so far.
HttpsPart(cfg, url, res, failed) ==
  IF cfg.check_https
  THEN IF failed
       THEN [pc |-> "next",
             results |-> Append(res, skipped_test(CaseName("https_availability", url), SkipReason))]
       ELSE [pc |-> "https", results |-> res]
  ELSE [pc |-> "next", results |-> res]

\* Variant that emits no skipped HTTP outcome after a DNS failure
HttpPart_NoSkip(cfg, url, res, failed) ==
  IF cfg.check_http /\ ~failed
  THEN [pc |-> "http", results |-> res]
  ELSE HttpsPart(cfg, url, res, failed)

\* The HTTP part of run_tests_for_url, after the DNS result is appended.
HttpPart(cfg, url, res, failed) ==
  IF cfg.check_http
  THEN IF failed
       THEN HttpsPart(cfg, url,
                      Append(res, skipped_test(CaseName("http_availability", url), SkipReason)),
                      failed)
       ELSE [pc |-> "http", results |-> res]
  ELSE HttpsPart(cfg, url, res, failed)

\* ----------------------------------------------------- create_junit_report
RECURSIVE SumDurations(_)
SumDurations(rs) == IF rs = <<>> THEN 0 ELSE Head(rs).duration + SumDurations(Tail(rs))

HasKey(props, k) == \E i \in 1 .. Len(props) : props[i][1] = k

\* Variant that adds every property of every result
RECURSIVE AddProperties_NoDedup(_, _)
AddProperties_NoDedup(added, props) ==
  IF props = <<>> THEN added
  ELSE AddProperties_NoDedup(Append(added, Head(props)), Tail(props))

\* suite.add_property for every key that was not added before
RECURSIVE AddProperties(_, _)
AddProperties(added, props) ==
  IF props = <<>> THEN added
  ELSE AddProperties(IF HasKey(added, Head(props)[1]) THEN added
                     ELSE Append(added, Head(props)),
                     Tail(props))

RECURSIVE SuiteProperties(_, _)
SuiteProperties(added, rs) ==
  IF rs = <<>> THEN added
  ELSE SuiteProperties(AddProperties(added, Head(rs).properties), Tail(rs))

\* The TestCase built from one result
ReportCase(r) ==
  IF r.skipped
  THEN [name |-> r.case_name, time |-> r.duration, kind |-> "Skipped",
        message |-> r.skipped_message, text |-> None]
  ELSE IF r.error # None
  THEN [name |-> r.case_name, time |-> r.duration, kind |-> "Error",
        message |-> Str("Unexpected error"), text |-> r.error]
  ELSE IF Truthy(r.failure_message)
  THEN [name |-> r.case_name, time |-> r.duration, kind |-> "Failure",
        message |-> r.failure_message, text |-> r.failure_text]
  ELSE [name |-> r.case_name, time |-> r.duration, kind |-> "Passed",
        message |-> None, text |-> None]

create_junit_report(rs) ==
  [cases |-> [i \in 1 .. Len(rs) |-> ReportCase(rs[i])],
   properties |-> SuiteProperties(<<>>, rs),
   time |-> SumDurations(rs)]

\* ===================================================== input_echo_test.py
\* The input-echo worker (src/input_echo_test.py).  The strings it inspects
\* (names and values of environment variables) are sequences of characters;
\* NoneValue stands for Python's None where such a string is expected.
MaxEchoDelay == 1     \* longest time one test of the echo worker may take (ticks)

NoneValue == <<"<None>">>
TEST_ == <<"T", "E", "S", "T", "_">>

\* The names os.environ.items() may yield, in its order, and their values
EchoKeys == <<TEST_ \o <<"B">>, TEST_ \o <<"a">>, TEST_ \o <<"A">>, <<"T", "E", "S", "T">>>>
EchoValues == {<<>>, <<" ">>, <<"N", "o", "n", "e">>, <<"v">>}

EchoEnvironments ==
  [TS_NAME : {NoneValue, <<>>, <<"s">>},
   SPECIAL_SOURCE_FILE : {NoneValue, <<"f">>},
   values : [1 .. Len(EchoKeys) -> EchoValues \cup {NoneValue}]]

\* os.environ.items(): the (key, value) pairs of the variables that are set
RECURSIVE items(_, _)
items(e, i) ==
  IF i > Len(EchoKeys) THEN <<>>
  ELSE (IF e.values[i] = NoneValue THEN <<>> ELSE <<<<EchoKeys[i], e.values[i]>>>>)
         \o items(e, i + 1)

\* bool(s) of an optional string
truthy(s) == s # NoneValue /\ s # <<>>

\* key.startswith(prefix)
startswith(key, prefix) ==
  Len(key) >= Len(prefix) /\ SubSeq(key, 1, Len(prefix)) = prefix

\* key[len("TEST_"):].lower()
lower_char(c) == IF c = "A" THEN "a" ELSE IF c = "B" THEN "b" ELSE c
lower(s) == [i \in 1 .. Len(s) |-> lower_char(s[i])]
param_name(key) == lower(SubSeq(key, Len(TEST_) + 1, Len(key)))

\* value.strip()
RECURSIVE lstrip(_)
lstrip(s) == IF s # <<>> /\ Head(s) = " " THEN lstrip(Tail(s)) ELSE s
RECURSIVE rstrip(_)
rstrip(s) ==
  IF s # <<>> /\ s[Len(s)] = " " THEN rstrip(SubSeq(s, 1, Len(s) - 1)) ELSE s
strip(s) == rstrip(lstrip(s))

\* str(n) of a small count
digit(n) ==
  CASE n = 0 -> "0" [] n = 1 -> "1" [] n = 2 -> "2" [] n = 3 -> "3" [] n = 4 -> "4"
    [] n = 5 -> "5" [] n = 6 -> "6" [] n = 7 -> "7" [] n = 8 -> "8" [] n = 9 -> "9"
RECURSIVE str_of(_)
str_of(n) == IF n < 10 THEN <<digit(n)>> ELSE Append(str_of(n \div 10), digit(n % 10))

\* properties[key] = value on a dict kept as a sequence of (key, value) pairs
dict_set(d, key, value) ==
  IF \E i \in 1 .. Len(d) : d[i][1] = key
  THEN [i \in 1 .. Len(d) |-> IF d[i][1] = key THEN <<key, value>> ELSE d[i]]
  ELSE Append(d, <<key, value>>)

\* sorted(names): the order of str on the characters of the names
ord(c) == CASE c = "a" -> 97 [] c = "b" -> 98 [] OTHER -> 0
RECURSIVE str_le(_, _)
str_le(a, b) ==
  IF a = <<>> THEN TRUE
  ELSE IF b = <<>> THEN FALSE
  ELSE IF Head(a) = Head(b) THEN str_le(Tail(a), Tail(b))
  ELSE ord(Head(a)) < ord(Head(b))
RECURSIVE insert(_, _)
insert(sorted_names, name) ==
  IF sorted_names = <<>> THEN <<name>>
  ELSE IF str_le(name, Head(sorted_names)) THEN <<name>> \o sorted_names
  ELSE <<Head(sorted_names)>> \o insert(Tail(sorted_names), name)
RECURSIVE sorted(_)
sorted(names) == IF names = <<>> THEN <<>> ELSE insert(sorted(Tail(names)), Head(names))

k_test_parameter_count ==
  <<"t", "e", "s", "t", "_", "p", "a", "r", "a", "m", "e", "t", "e", "r",
    "_", "c", "o", "u", "n", "t">>
k_empty_test_parameter_count == <<"e", "m", "p", "t", "y", "_">> \o k_test_parameter_count
k_source_file == <<"s", "o", "u", "r", "c", "e", "_", "f", "i", "l", "e">>

\* properties["source_file"] = source_file, if SPECIAL_SOURCE_FILE is set
with_source_file(e, properties) ==
  IF truthy(e.SPECIAL_SOURCE_FILE)
  THEN dict_set(properties, k_source_file, e.SPECIAL_SOURCE_FILE)
  ELSE properties

\* --------------------------------------------------------- get_env_test
\* The loop over os.environ.items()
RECURSIVE collect_parameters(_, _)
collect_parameters(properties, its) ==
  IF its = <<>> THEN properties
  ELSE collect_parameters(
         IF startswith(Head(its)[1], TEST_)
         THEN dict_set(properties, param_name(Head(its)[1]), Head(its)[2])
         ELSE properties,
         Tail(its))

\* Variant that counts the properties after test_parameter_count was added
get_env_test_CountAfter(e, duration) ==
  LET properties == dict_set(collect_parameters(<<>>, items(e, 1)),
                             k_test_parameter_count, <<"0">>)
      env_var_count == Len(properties)
  IN [case_name |-> Str("get_env_test"),
      properties |-> with_source_file(e, dict_set(properties, k_test_parameter_count,
                                                  str_of(env_var_count))),
      duration |-> duration,
      error |-> None,
      failure_message |-> IF env_var_count = 0 THEN Str("No test parameters found")
                          ELSE None,
      failure_text |-> IF env_var_count = 0 THEN Str("") ELSE None,
      skipped |-> FALSE,
      skipped_message |-> Str("")]

get_env_test(e, duration) ==
  LET properties == collect_parameters(<<>>, items(e, 1))
      env_var_count == Len(properties)
  IN [case_name |-> Str("get_env_test"),
      properties |-> with_source_file(e, dict_set(properties, k_test_parameter_count,
                                                  str_of(env_var_count))),
      duration |-> duration,
      error |-> None,
      failure_message |-> IF env_var_count = 0 THEN Str("No test parameters found")
                          ELSE None,
      failure_text |-> IF env_var_count = 0 THEN Str("") ELSE None,
      skipped |-> FALSE,
      skipped_message |-> Str("")]

\* ------------------------------------------------- check_emptiness_test
is_empty_value(value) ==
  value = NoneValue \/ strip(value) = <<>> \/ value = <<"N", "o", "n", "e">>

RECURSIVE collect_empty(_, _)
collect_empty(empty_vars, its) ==
  IF its = <<>> THEN empty_vars
  ELSE collect_empty(
         IF startswith(Head(its)[1], TEST_) /\ is_empty_value(Head(its)[2])
         THEN Append(empty_vars, param_name(Head(its)[1]))
         ELSE empty_vars,
         Tail(its))

check_emptiness_test(e, duration) ==
  LET empty_vars == collect_empty(<<>>, items(e, 1))
  IN [case_name |-> Str("check_emptiness_test"),
      properties |-> with_source_file(e, <<<<k_empty_test_parameter_count,
                                             str_of(Len(empty_vars))>>>>),
      duration |-> duration,
      error |-> None,
      failure_message |-> IF empty_vars # <<>> THEN Str("Empty test parameters found")
                          ELSE None,
      failure_text |-> IF empty_vars # <<>>
                       THEN [text |-> "join", lines |-> sorted(empty_vars)]
                       ELSE None,
      skipped |-> FALSE,
      skipped_message |-> Str("")]

\* skipped_test of the echo worker
echo_skipped_test(case_name, reason) ==
  [case_name |-> case_name,
   duration |-> 0,
   error |-> None,
   failure_message |-> None,
   failure_text |-> None,
   properties |-> <<>>,
   skipped |-> TRUE,
   skipped_message |-> reason]

\* ------------------------------------- create_junit_report (echo worker)
echo_ReportCase(r) ==
  IF r.skipped
  THEN [name |-> r.case_name, time |-> r.duration, kind |-> "Skipped",
        message |-> r.skipped_message, text |-> None]
  ELSE IF r.error # None
  THEN [name |-> r.case_name, time |-> r.duration, kind |-> "Error",
        message |-> Str("Unexpected exception"), text |-> r.error]
  ELSE IF Truthy(r.failure_message)
  THEN [name |-> r.case_name, time |-> r.duration, kind |-> "Failure",
        message |-> r.failure_message, text |-> r.failure_text]
  ELSE [name |-> r.case_name, time |-> r.duration, kind |-> "Passed",
        message |-> None, text |-> None]

RECURSIVE echo_properties(_)
echo_properties(rs) ==
  IF rs = <<>> THEN <<>> ELSE Head(rs).properties \o echo_properties(Tail(rs))

\* The files written: none for an empty result list, else the one report
echo_create_junit_report(test_suite_name, rs) ==
  IF rs = <<>> THEN <<>>
  ELSE <<[suite |-> test_suite_name,
          path |-> [text |-> "/reports/_report.xml", name |-> test_suite_name],
          cases |-> [i \in 1 .. Len(rs) |-> echo_ReportCase(rs[i])],
          properties |-> echo_properties(rs),
          time |-> SumDurations(rs)]>>

\* The branch of __main__ on the result of get_env_test
get_env_failed(result) == Truthy(result.failure_message) \/ result.error # None

\* ------------------------------------------------------------------- state
VARIABLES
  env,                \* the process environment (TEST_* variables)
  pc,                 \* position of the __main__ block
  config,             \* result of parse_config
  urlIdx,             \* index in config.urls of the URL being tested
  results,            \* the results list
  dns_failed,         \* dns_failed of run_tests_for_url
  current_url,        \* check_url: current_url
  initial_scheme,     \* check_url: initial_scheme
  redirects_followed, \* check_url: redirects_followed
  elapsed,            \* check_url: time.time() - start
  hopLog,             \* the session.get calls (and their responses) of the check_url call in progress
  ret,                \* the check_url call that has just returned: its result and requests
  dnsLog,             \* per URL tested: what socket.gethostbyname did ("none": not called)
  probed,             \* indices of the URLs session.get was called for
  report,             \* the report file, once written
  echo_env,           \* echo worker: the process environment
  echo_pc,            \* echo worker: position of the __main__ block
  result_get_env,     \* echo worker: result_get_env, once assigned
  echo_results,       \* echo worker: the results list
  echo_calls,         \* echo worker: the test functions called so far
  echo_report         \* echo worker: the report file, once written

echoVars == <<echo_env, echo_pc, result_get_env, echo_results, echo_calls, echo_report>>

vars == <<env, pc, config, urlIdx, results, dns_failed, current_url,
          initial_scheme, redirects_followed, elapsed, hopLog, ret,
          dnsLog, probed, report, echoVars>>

\* The echo worker is a separate program: it is not running in a run of
\* the availability worker.
EchoIdle ==
  /\ echo_env = [TS_NAME |-> NoneValue, SPECIAL_SOURCE_FILE |-> NoneValue,
                 values |-> [i \in 1 .. Len(EchoKeys) |-> NoneValue]]
  /\ echo_pc = "off"
  /\ result_get_env = <<>>
  /\ echo_results = <<>>
  /\ echo_calls = <<>>
  /\ echo_report = <<>>

locals == <<current_url, initial_scheme, redirects_followed, elapsed>>

Init ==
  /\ env \in Environments
  /\ pc = "start"
  /\ config = [urls |-> <<>>, max_redirects |-> 0, timeout |-> 1,
               check_http |-> FALSE, check_https |-> FALSE, verify_ssl |-> FALSE]
  /\ urlIdx = 0
  /\ results = <<>>
  /\ dns_failed = FALSE
  /\ current_url = NoUrl
  /\ initial_scheme = ""
  /\ redirects_followed = 0
  /\ elapsed = 0
  /\ hopLog = <<>>
  /\ ret = <<>>
  /\ dnsLog = <<>>
  /\ probed = {}
  /\ report = <<>>
  /\ EchoIdle

Url_ == config.urls[urlIdx]

\* Control moves on inside run_tests_for_url and __main__: into check_url
\* for the scheme step.pc, to the next URL of the loop, or, after the last
\* URL, to create_junit_report, which writes the report.
Goto(step) ==
  /\ results' = step.results
  /\ IF step.pc \in {"http", "https"}
     THEN /\ pc' = step.pc
          /\ urlIdx' = urlIdx
          /\ report' = report
          /\ current_url' = TargetUrl(Url_, step.pc)
          /\ initial_scheme' = TargetUrl(Url_, step.pc).scheme
          /\ redirects_followed' = 0
          /\ elapsed' = 0
          /\ hopLog' = <<>>
     ELSE /\ IF urlIdx < Len(config.urls)
             THEN pc' = "dns" /\ urlIdx' = urlIdx + 1 /\ report' = report
             ELSE /\ pc' = "done"
                  /\ urlIdx' = urlIdx
                  /\ report' = <<create_junit_report(step.results)>>
          /\ current_url' = NoUrl
          /\ initial_scheme' = ""
          /\ redirects_followed' = 0
          /\ elapsed' = 0
          /\ hopLog' = <<>>

\* __main__ up to the first network call: parse_config and the branch on
\* config["urls"]; without URLs the report is written at once.  With TEST_URLS unset raw_urls is None and raw_urls.strip
\* raises AttributeError.
Main ==
  /\ pc = "start"
  /\ IF env.TEST_URLS = Unset
     THEN /\ pc' = "crashed"
          /\ UNCHANGED <<config, urlIdx, results, report>>
     ELSE /\ config' = parse_config(env)
          /\ IF config'.urls = <<>>
             THEN /\ results' = <<skipped_test(Str("resource_availability"),
                                               Str("No URL(s) configured"))>>
                  /\ report' = <<create_junit_report(results')>>
                  /\ pc' = "done"
                  /\ urlIdx' = urlIdx
             ELSE /\ results' = <<>>
                  /\ report' = report
                  /\ pc' = "dns"
                  /\ urlIdx' = 1
  /\ ret' = <<>>
  /\ UNCHANGED <<env, dns_failed, locals, hopLog, dnsLog, probed, echoVars>>

\* run_tests_for_url from its start to the first session.get (or to its
\* end when no check_url call is made): run_dns_test and the skip cascade.
RunDnsTest ==
  /\ pc = "dns"
  /\ \E outcome \in ResolverOutcomes, d \in 0 .. MaxDnsDelay :
       LET hostname == Hostname(Url_)
           dns_result == run_dns_test(Url_, outcome, d)
       IN /\ dnsLog' = Append(dnsLog, IF hostname = None THEN "none" ELSE outcome)
          /\ IF check_dns_raises(hostname, outcome)
             THEN /\ pc' = "crashed"
                  /\ UNCHANGED <<urlIdx, results, dns_failed, locals, hopLog, report>>
             ELSE /\ dns_failed' = DnsFailed(dns_result)
                  /\ Goto(HttpPart(config, Url_, Append(results, dns_result),
                                   DnsFailed(dns_result)))
  /\ ret' = <<>>
  /\ UNCHANGED <<env, config, probed, echoVars>>

\* One iteration of the loop of check_url: one session.get and what follows
\* it.  When check_url returns, run_availability_test builds the outcome and
\* run_tests_for_url goes on to the next check.
Hop ==
  /\ pc \in {"http", "https"}
  /\ \E r \in Responses, d \in 0 .. MaxDelay :
       LET s == check_url_step(current_url, initial_scheme, redirects_followed,
                               config.max_redirects, config.timeout, r, elapsed + d)
           outcome == run_availability_test(Url_, pc, config, s.ret)
           appended == Append(results, outcome)
           request == [url |-> current_url,
                       verify |-> hop_verify(current_url, config.verify_ssl),
                       response |-> r]
       IN /\ probed' = probed \cup {urlIdx}
          /\ CASE s.do = "continue" ->
                    /\ current_url' = s.next
                    /\ redirects_followed' = redirects_followed + 1
                    /\ elapsed' = elapsed + d
                    /\ hopLog' = Append(hopLog, request)
                    /\ ret' = <<>>
                    /\ UNCHANGED <<pc, urlIdx, results, initial_scheme, report>>
               [] s.do = "raise" ->
                    /\ pc' = "crashed"
                    /\ hopLog' = Append(hopLog, request)
                    /\ ret' = <<>>
                    /\ UNCHANGED <<urlIdx, results, locals, report>>
               [] s.do = "return" ->
                    /\ ret' = <<[scheme |-> pc, start |-> TargetUrl(Url_, pc),
                                 followed |-> redirects_followed,
                                 requests |-> Append(hopLog, request),
                                 result |-> s.ret]>>
                    /\ Goto(IF pc = "http"
                            THEN HttpsPart(config, Url_, appended, dns_failed)
                            ELSE [pc |-> "next", results |-> appended])
  /\ UNCHANGED <<env, config, dns_failed, dnsLog, echoVars>>

Next == Main \/ RunDnsTest \/ Hop

Spec == Init /\ [][Next]_vars

\* Runs with at most one entry in TEST_URLS: the same program on a single
\* target, for the properties of one check_url call and its classification.
InitOne == Init /\ Len(env.TEST_URLS) <= 1

SpecOne == InitOne /\ [][Next]_vars

\* The run is one sequential process: a step that can be taken is taken
\* (every request returns or raises once the transport timeout has passed).
SpecOneFair == SpecOne /\ WF_vars(Next)

\* ---------------------------------------------------- the echo worker runs
availVars == <<env, pc, config, urlIdx, results, dns_failed, current_url,
               initial_scheme, redirects_followed, elapsed, hopLog, ret,
               dnsLog, probed, report>>

InitEcho ==
  /\ env = [TEST_URLS |-> Unset, max_redirects |-> 0, timeout |-> 1,
            check_http |-> FALSE, check_https |-> FALSE, verify_ssl |-> FALSE]
  /\ pc = "off"
  /\ config = [urls |-> <<>>, max_redirects |-> 0, timeout |-> 1,
               check_http |-> FALSE, check_https |-> FALSE, verify_ssl |-> FALSE]
  /\ urlIdx = 0
  /\ results = <<>>
  /\ dns_failed = FALSE
  /\ current_url = NoUrl
  /\ initial_scheme = ""
  /\ redirects_followed = 0
  /\ elapsed = 0
  /\ hopLog = <<>>
  /\ ret = <<>>
  /\ dnsLog = <<>>
  /\ probed = {}
  /\ report = <<>>
  /\ echo_env \in EchoEnvironments
  /\ echo_pc = "start"
  /\ result_get_env = <<>>
  /\ echo_results = <<>>
  /\ echo_calls = <<>>
  /\ echo_report = <<>>

\* __main__ of the echo worker up to the call of check_emptiness_test: the
\* branch on TS_NAME, get_env_test and the branch on its result.  On the
\* two paths that skip check_emptiness_test the report is written at once.
EchoGetEnv ==
  /\ echo_pc = "start"
  /\ IF truthy(echo_env.TS_NAME)
     THEN \E d \in 0 .. MaxEchoDelay :
            LET result == get_env_test(echo_env, d)
                rs == <<result, echo_skipped_test(
                                  Str("check_emptiness_test"),
                                  Str("Failure or error within the get_env_test"))>>
            IN /\ echo_calls' = <<"get_env_test">>
               /\ result_get_env' = <<result>>
               /\ IF get_env_failed(result)
                  THEN /\ echo_results' = rs
                       /\ echo_report' = echo_create_junit_report(echo_env.TS_NAME, rs)
                       /\ echo_pc' = "done"
                  ELSE /\ echo_pc' = "check_emptiness"
                       /\ UNCHANGED <<echo_results, echo_report>>
     ELSE LET rs == <<echo_skipped_test(Str("get_env_test"), Str("TS_NAME not set")),
                      echo_skipped_test(Str("check_emptiness_test"),
                                        Str("TS_NAME not set"))>>
          IN /\ echo_results' = rs
             /\ echo_report' = echo_create_junit_report(<<"u", "n", "k", "n", "o", "w", "n">>, rs)
             /\ echo_pc' = "done"
             /\ UNCHANGED <<echo_calls, result_get_env>>
  /\ UNCHANGED <<echo_env, availVars>>

\* check_emptiness_test, the results list and the report
EchoCheckEmptiness ==
  /\ echo_pc = "check_emptiness"
  /\ \E d \in 0 .. MaxEchoDelay :
       LET rs == <<result_get_env[1], check_emptiness_test(echo_env, d)>>
       IN /\ echo_calls' = Append(echo_calls, "check_emptiness_test")
          /\ echo_results' = rs
          /\ echo_report' = echo_create_junit_report(echo_env.TS_NAME, rs)
          /\ echo_pc' = "done"
  /\ UNCHANGED <<echo_env, result_get_env, availVars>>

NextEcho == EchoGetEnv \/ EchoCheckEmptiness

SpecEcho == InitEcho /\ [][NextEcho]_vars

\* ================================================================ properties
Last(q) == q[Len(q)]
Max(a, b) == IF a >= b THEN a ELSE b

\* check_url has just returned; Call is that call and Outcome the outcome
\* run_availability_test built from it.
Returned == ret # <<>>
Call == ret[1]
Outcome == Last(results)
LastRequest == Last(Call.requests)

\* Pass / Fail / Error / Skipped of an outcome, as the report shows it
OutcomeKind(o) == ReportCase(o).kind

IsSuccess(r) == r.kind = "response" /\ 200 <= r.status_code /\ r.status_code < 300
HasTarget(r) ==
  /\ r.kind = "response" /\ 300 <= r.status_code /\ r.status_code < 400
  /\ r.location \notin {NoLocation, BadLocation}
Target(q) == urljoin(q.url, q.response.location)
SameSchemeRedirect(q, scheme) == HasTarget(q.response) /\ Target(q).scheme = scheme
CrossSchemeRedirect(q, scheme) == HasTarget(q.response) /\ Target(q).scheme # scheme

LimitText(q) ==
  [text |-> "Redirect limit reached", limit |-> config.max_redirects,
   status |-> q.response.status_code, url |-> q.url]
TimingText(t) ==
  [text |-> "Response time exceeded timeout", elapsed |-> t, timeout |-> config.timeout]

FailText(scheme) ==
  [text |-> "availability check failed",
   scheme |-> IF scheme = "http" THEN "HTTP" ELSE "HTTPS"]

SchemeKinds ==
  (IF config.check_http THEN <<"http_availability">> ELSE <<>>)
    \o (IF config.check_https THEN <<"https_availability">> ELSE <<>>)

\* ------------------------------------------------------------------------ C1
\* C1: when the hostname of a URL cannot be resolved (socket.gaierror) or
\* cannot be extracted, run_tests_for_url yields a failed DNS outcome followed
\* by one Skipped outcome, with reason "Skipped due to DNS failure", for every
\* enabled scheme check, and no HTTP(S) request is issued for that URL.
C1_NewResults == SubSeq(results', Len(results) + 1, Len(results'))

C1_Step ==
  (pc = "dns" /\ pc' # "crashed" /\ Last(dnsLog') \in {"none", "gaierror"}) =>
    /\ Len(C1_NewResults) = 1 + Len(SchemeKinds)
    /\ OutcomeKind(C1_NewResults[1]) = "Failure"
    /\ C1_NewResults[1].case_name = CaseName("dns_resolution", config.urls[urlIdx])
    /\ \A k \in 1 .. Len(SchemeKinds) :
         /\ OutcomeKind(C1_NewResults[k + 1]) = "Skipped"
         /\ C1_NewResults[k + 1].skipped_message = Str("Skipped due to DNS failure")
         /\ C1_NewResults[k + 1].case_name = CaseName(SchemeKinds[k], config.urls[urlIdx])
    /\ pc' \notin {"http", "https"}
    /\ probed' = probed

C1_NoRequest == \A i \in probed : dnsLog[i] = "address"

C1_DnsFailureSkips == [](C1_NoRequest) /\ [][C1_Step]_vars

C1_Witness ==
  /\ dnsLog = <<"gaierror">>
  /\ config.check_http /\ config.check_https
  /\ Len(results) = 3
  /\ results[2].skipped /\ results[3].skipped
  /\ probed = {}

\* ------------------------------------------------------------------------ C2
\* C2: a chain of same-scheme redirects is followed as long as fewer than
\* maxRedirects redirects were followed, every request goes to the URL the
\* previous Location resolved to, and at the first 2xx response check_url
\* returns that status code, the URL that produced it, no error and
\* crossedSchemeBoundary = false.
C2_FirstSuccess ==
  Returned =>
    /\ Call.requests[1].url = Call.start
    /\ \A k \in 1 .. Len(Call.requests) - 1 :
         /\ SameSchemeRedirect(Call.requests[k], Call.scheme)
         /\ Call.requests[k + 1].url = Target(Call.requests[k])
    /\ SameSchemeRedirect(LastRequest, Call.scheme) =>
         Len(Call.requests) - 1 >= config.max_redirects
    /\ IsSuccess(LastRequest.response) =>
         /\ Call.result.status = LastRequest.response.status_code
         /\ Call.result.final_url = LastRequest.url
         /\ Call.result.error = None
         /\ Call.result.crossed_scheme_boundary = FALSE

C2_Witness ==
  /\ Returned
  /\ Len(Call.requests) = 2
  /\ IsSuccess(LastRequest.response)
  /\ Call.result.final_url # Call.start

\* ------------------------------------------------------------------------ C3
\* C3, as stated: check_url stops at a same-scheme redirect when the counter
\* of followed redirects equals maxRedirects, and returns the last status
\* code, the current URL and the redirect-limit error; below the timeout the
\* outcome is Fail with that text as detail.
C3_StopsAtMaxRedirects ==
  (Returned /\ SameSchemeRedirect(LastRequest, Call.scheme)) =>
    /\ Call.followed = config.max_redirects
    /\ Call.result = Return(LastRequest.response.status_code, LastRequest.url,
                            Call.result.elapsed, LimitText(LastRequest), FALSE)
    /\ Call.result.elapsed < config.timeout =>
         /\ OutcomeKind(Outcome) = "Failure"
         /\ ReportCase(Outcome).text = LimitText(LastRequest)

\* C3, amended: the counter at which check_url stops is max(maxRedirects, 0)
\* (a negative maxRedirects stops at the first redirect, counter 0); the
\* returned tuple and the Fail outcome are as stated.
C3_StopsAtLimit ==
  (Returned /\ SameSchemeRedirect(LastRequest, Call.scheme)) =>
    /\ Call.followed = Max(config.max_redirects, 0)
    /\ Call.followed = Len(Call.requests) - 1
    /\ Call.result = Return(LastRequest.response.status_code, LastRequest.url,
                            Call.result.elapsed, LimitText(LastRequest), FALSE)
    /\ Call.result.elapsed < config.timeout =>
         /\ OutcomeKind(Outcome) = "Failure"
         /\ Outcome.failure_message = FailText(Call.scheme)
         /\ ReportCase(Outcome).text = LimitText(LastRequest)

C3_Witness ==
  /\ Returned
  /\ SameSchemeRedirect(LastRequest, Call.scheme)
  /\ config.max_redirects = 1
  /\ Call.followed = 1
  /\ Call.result.elapsed < config.timeout
  /\ OutcomeKind(Outcome) = "Failure"

\* ------------------------------------------------------------------------ C4
\* C4: a 3xx response whose Location resolves to a URL of another scheme than
\* the initial one ends check_url with the status code, the next URL as final
\* URL, crossedSchemeBoundary = true and no error, and the outcome is Pass,
\* whatever maxRedirects and the number of redirects followed are.
C4_SchemeBoundary ==
  (Returned /\ CrossSchemeRedirect(LastRequest, Call.scheme)) =>
    /\ Call.result = Return(LastRequest.response.status_code, Target(LastRequest),
                            Call.result.elapsed, None, TRUE)
    /\ OutcomeKind(Outcome) = "Passed"

C4_Witness ==
  /\ Returned
  /\ CrossSchemeRedirect(LastRequest, Call.scheme)
  /\ config.max_redirects = 1
  /\ Call.followed = 1
  /\ Call.result.crossed_scheme_boundary
  /\ OutcomeKind(Outcome) = "Passed"

\* ------------------------------------------------------------------------ C5
\* C5: whenever the elapsed time check_url returns is at least the timeout,
\* the outcome is a failure (not an Error-kind outcome) whose message is the
\* response-time text, in the outcome record and in the report case.
C5_SlowIsFailure ==
  (Returned /\ Call.result.elapsed >= config.timeout) =>
    /\ Outcome.error = None
    /\ Outcome.failure_message = TimingText(Call.result.elapsed)
    /\ OutcomeKind(Outcome) = "Failure"
    /\ ReportCase(Outcome).message = TimingText(Call.result.elapsed)

\* ------------------------------------------------------------------------ C6
\* C6, as stated: the timing rule comes first, so no result with
\* elapsed >= timeout, crossed scheme boundary or not, gives a Pass outcome.
C6_SlowNeverPasses ==
  (Returned /\ Call.result.elapsed >= config.timeout) => OutcomeKind(Outcome) # "Passed"

\* C6, amended: the scheme-boundary rule comes first (Pass), then the timing
\* rule, then the error rule, then plain Pass; a result with
\* elapsed >= timeout that crossed no scheme boundary is not Pass.
C6_ClassificationOrder ==
  Returned =>
    /\ Call.result.crossed_scheme_boundary => OutcomeKind(Outcome) = "Passed"
    /\ (~Call.result.crossed_scheme_boundary /\ Call.result.elapsed >= config.timeout) =>
         /\ OutcomeKind(Outcome) # "Passed"
         /\ ReportCase(Outcome).text = TimingText(Call.result.elapsed)
    /\ (/\ ~Call.result.crossed_scheme_boundary
        /\ Call.result.elapsed < config.timeout
        /\ Call.result.error # None) =>
         /\ OutcomeKind(Outcome) = "Failure"
         /\ ReportCase(Outcome).text = Call.result.error
    /\ (/\ ~Call.result.crossed_scheme_boundary
        /\ Call.result.elapsed < config.timeout
        /\ Call.result.error = None) => OutcomeKind(Outcome) = "Passed"

C6_Witness ==
  /\ Returned
  /\ Call.result.crossed_scheme_boundary
  /\ Call.result.elapsed >= config.timeout
  /\ OutcomeKind(Outcome) = "Passed"

\* ------------------------------------------------------------------------ C7
\* C7, as stated: a transport failure on any hop makes check_url return no
\* status code, the current URL and the transport error text, and the
\* outcome is Fail carrying that text.
C7_TransportFailureFails ==
  (Returned /\ LastRequest.response.kind # "response") =>
    /\ Call.result.status = NoStatus
    /\ Call.result.final_url = LastRequest.url
    /\ Call.result.error # None
    /\ LastRequest.response.kind = "Timeout" =>
         Call.result.error = [text |-> "Request timed out after", timeout |-> config.timeout]
    /\ OutcomeKind(Outcome) = "Failure"
    /\ ReportCase(Outcome).text = Call.result.error

\* C7, amended: the returned tuple is as stated; the outcome is Fail carrying
\* the transport error text when the elapsed time is below the timeout.
C7_TransportFailure ==
  (Returned /\ LastRequest.response.kind # "response") =>
    /\ Call.result.status = NoStatus
    /\ Call.result.final_url = LastRequest.url
    /\ Call.result.error # None
    /\ Call.result.crossed_scheme_boundary = FALSE
    /\ LastRequest.response.kind = "Timeout" =>
         Call.result.error = [text |-> "Request timed out after", timeout |-> config.timeout]
    /\ Call.result.elapsed < config.timeout =>
         /\ OutcomeKind(Outcome) = "Failure"
         /\ ReportCase(Outcome).text = Call.result.error

C7_Witness ==
  /\ Returned
  /\ LastRequest.response.kind = "Timeout"
  /\ Len(Call.requests) = 2
  /\ Call.result.elapsed < config.timeout
  /\ OutcomeKind(Outcome) = "Failure"

\* ------------------------------------------------------------------------ C8
\* C8: with no target URL configured (TEST_URLS unset, empty or only blank
\* entries) the run ends with exactly one Skipped outcome, without any DNS
\* resolution or HTTP(S) request, and with the report written.
NoTargets ==
  \/ env.TEST_URLS = Unset
  \/ \A i \in 1 .. Len(env.TEST_URLS) : env.TEST_URLS[i] = Blank

C8_NoUrlsShortCircuit ==
  (NoTargets /\ pc # "start") =>
    /\ pc = "done"
    /\ Len(results) = 1
    /\ OutcomeKind(results[1]) = "Skipped"
    /\ dnsLog = <<>>
    /\ probed = {}
    /\ report = <<create_junit_report(results)>>

\* ------------------------------------------------------------------------ C9
\* C9: with a URL list configured, no failure inside a check aborts the run:
\* the run never ends in an uncaught exception (which leaves the remaining
\* URLs without outcomes and the report unwritten).
C9_RunNeverAborts == env.TEST_URLS # Unset => pc # "crashed"

\* ----------------------------------------------------------------------- C10
\* C10: the outcomes of each URL are the DNS outcome, then the HTTP outcome
\* (if enabled), then the HTTPS outcome (if enabled); a check is entered only
\* when the outcomes of all checks before it are in the list; the URLs'
\* outcomes follow each other in the order of the URL list.
C10_Kinds == <<"dns_resolution">> \o SchemeKinds

C10_Finished == IF pc = "done" THEN Len(config.urls) ELSE urlIdx - 1

C10_Current ==
  IF pc = "http" THEN 1
  ELSE IF pc = "https" THEN Len(C10_Kinds) - 1
  ELSE 0

C10_SequentialOrder ==
  (pc \in {"dns", "http", "https", "done"} /\ config.urls # <<>>) =>
    /\ Len(results) = C10_Finished * Len(C10_Kinds) + C10_Current
    /\ \A k \in 1 .. Len(results) :
         results[k].case_name =
           CaseName(C10_Kinds[((k - 1) % Len(C10_Kinds)) + 1],
                    config.urls[((k - 1) \div Len(C10_Kinds)) + 1])
    /\ hopLog # <<>> => pc \in {"http", "https"}

C10_Witness ==
  /\ pc = "done"
  /\ Len(config.urls) = 2
  /\ config.urls[1] # config.urls[2]
  /\ Len(results) = 6
  /\ probed = {1}
  /\ dnsLog = <<"address", "none">>

\* ----------------------------------------------------------------------- C11
\* C11: every outcome in the result list has at most one of skipped, error
\* and failure_message set (none of them set is a Pass), and every Skipped
\* outcome has duration 0.
C11_Set(o) ==
  (IF o.skipped THEN 1 ELSE 0) + (IF o.error # None THEN 1 ELSE 0)
    + (IF Truthy(o.failure_message) THEN 1 ELSE 0)

C11_OneStatus ==
  \A k \in 1 .. Len(results) :
    /\ C11_Set(results[k]) <= 1
    /\ results[k].skipped => results[k].duration = 0
    /\ (OutcomeKind(results[k]) = "Passed") = (C11_Set(results[k]) = 0)

C11_Witness ==
  /\ Returned
  /\ Truthy(Call.result.error)
  /\ Call.result.elapsed >= config.timeout
  /\ C11_Set(Outcome) = 1
  /\ OutcomeKind(Outcome) = "Error"

\* ----------------------------------------------------------------------- C12
\* C12, as stated: certificate verification is requested only on an https
\* hop, where it equals the configured flag; on an http hop it is never
\* requested, whatever the flag is.
C12_Requests == IF Returned THEN Call.requests ELSE hopLog

C12_HttpNeverVerifies ==
  \A k \in 1 .. Len(C12_Requests) :
    /\ C12_Requests[k].url.scheme = "https" => C12_Requests[k].verify = config.verify_ssl
    /\ C12_Requests[k].url.scheme = "http" => C12_Requests[k].verify = FALSE

\* C12, amended: the verify argument of a request equals the configured flag
\* when the hop's URL scheme is https; on an http hop it is always True,
\* whatever the flag is.
C12_FlagOnlyOnHttps ==
  \A k \in 1 .. Len(C12_Requests) :
    /\ C12_Requests[k].url.scheme = "https" => C12_Requests[k].verify = config.verify_ssl
    /\ C12_Requests[k].url.scheme = "http" => C12_Requests[k].verify = TRUE

C12_Witness ==
  /\ Returned
  /\ ~config.verify_ssl
  /\ Len(Call.requests) = 2
  /\ Call.scheme = "http"
  /\ Call.requests[1].verify /\ Call.requests[2].verify

\* ----------------------------------------------------------------------- C13
\* C13, as stated: every outcome in the result list, whatever its kind,
\* carries a verify_ssl property, and every DNS outcome carries the hostname
\* and the original URL as properties.
C13_Value(props, key) == props[CHOOSE i \in 1 .. Len(props) : props[i][1] = key][2]

C13_IsDns(o) == o.case_name.text = "dns_resolution"

C13_EveryOutcomeHasVerifySsl ==
  \A k \in 1 .. Len(results) :
    /\ HasKey(results[k].properties, "verify_ssl")
    /\ C13_IsDns(results[k]) =>
         /\ HasKey(results[k].properties, "hostname")
         /\ HasKey(results[k].properties, "url")

\* C13, amended: every outcome of an availability check that ran carries a
\* verify_ssl property holding the effective value of its scheme (the
\* configured flag for https, True for http); a DNS outcome carries the
\* hostname and the original URL and no verify_ssl property; a Skipped
\* outcome carries no property.
C13_Properties ==
  \A k \in 1 .. Len(results) :
    LET o == results[k]
    IN IF o.skipped THEN o.properties = <<>>
       ELSE IF C13_IsDns(o)
       THEN /\ ~HasKey(o.properties, "verify_ssl")
            /\ HasKey(o.properties, "hostname") /\ HasKey(o.properties, "url")
            /\ C13_Value(o.properties, "url") = o.case_name.url
            /\ C13_Value(o.properties, "hostname") = Hostname(o.case_name.url)
       ELSE /\ HasKey(o.properties, "verify_ssl")
            /\ C13_Value(o.properties, "verify_ssl") =
                 Str(IF o.case_name.text = "https_availability"
                     THEN (IF config.verify_ssl THEN "TRUE" ELSE "FALSE")
                     ELSE "TRUE")

C13_Witness ==
  /\ Returned
  /\ ~config.verify_ssl
  /\ Len(results) = 3
  /\ C13_IsDns(results[1])
  /\ ~results[2].skipped /\ ~results[3].skipped
  /\ C13_Value(results[2].properties, "verify_ssl") = Str("TRUE")
  /\ C13_Value(results[3].properties, "verify_ssl") = Str("FALSE")

\* ----------------------------------------------------------------------- C14
\* The URLs whose DNS check has returned, and the outcome of each
C14_Checked == {i \in 1 .. Len(dnsLog) : dnsLog[i] # "UnicodeError"}
C14_Outcome(i) == results[(i - 1) * Len(C10_Kinds) + 1]
C14_DnsOutcomes == {k \in 1 .. Len(results) : C13_IsDns(results[k])}

C15_NoRedirectSameUrl ==
  (Returned /\ Call.followed = 0) => Call.result.final_url = Call.start

\* C15, amended: the final URL returned by check_url is the URL of the last
\* request, except at a scheme-boundary stop, where it is the URL the
\* Location header resolved to; so whenever check_url returns with zero
\* redirects followed on a path other than the scheme-boundary stop, the
\* final URL equals the starting URL.
C15_FinalUrl ==
  Returned =>
    /\ Call.result.final_url =
         IF Call.result.crossed_scheme_boundary THEN Target(LastRequest)
         ELSE LastRequest.url
    /\ Call.result.crossed_scheme_boundary = CrossSchemeRedirect(LastRequest, Call.scheme)
    /\ (Call.followed = 0 /\ ~Call.result.crossed_scheme_boundary) =>
         Call.result.final_url = Call.start

C15_Witness ==
  /\ Returned
  /\ Call.followed = 0
  /\ SameSchemeRedirect(LastRequest, Call.scheme)
  /\ Target(LastRequest) # Call.start
  /\ Call.result.final_url = Call.start

\* ----------------------------------------------------------------------- C16
\* C16: a 3xx response without a Location header, and a response whose status
\* is outside [200, 400), end the probe at once: check_url returns that
\* status, the current URL (no advance, counter unchanged), crossed = false
\* and the error "Redirect response <code> had no Location header" or
\* "Unexpected status code <code>"; below the timeout the outcome is Fail
\* with message "<SCHEME> availability check failed" and that text as detail.
C16_NoLocation(r) ==
  /\ r.kind = "response"
  /\ 300 <= r.status_code /\ r.status_code < 400
  /\ r.location = NoLocation

C16_Unexpected(r) ==
  r.kind = "response" /\ (r.status_code < 200 \/ r.status_code >= 400)

C16_Text(r) ==
  IF C16_NoLocation(r)
  THEN [text |-> "Redirect response had no Location header", status |-> r.status_code]
  ELSE [text |-> "Unexpected status code", status |-> r.status_code]

C16_Ending(r) == C16_NoLocation(r) \/ C16_Unexpected(r)

C16_BadResponseFails ==
  /\ \A k \in 1 .. Len(hopLog) : ~C16_Ending(hopLog[k].response)
  /\ (Returned /\ C16_Ending(LastRequest.response)) =>
       /\ Call.result = Return(LastRequest.response.status_code, LastRequest.url,
                               Call.result.elapsed, C16_Text(LastRequest.response),
                               FALSE)
       /\ Call.followed = Len(Call.requests) - 1
       /\ Call.result.elapsed < config.timeout =>
            /\ OutcomeKind(Outcome) = "Failure"
            /\ ReportCase(Outcome).message = FailText(Call.scheme)
            /\ ReportCase(Outcome).text = C16_Text(LastRequest.response)

C16_Witness ==
  /\ Returned
  /\ Len(Call.requests) = 2
  /\ LastRequest.response.status_code = 100
  /\ LastRequest.url # Call.start
  /\ Call.result.elapsed < config.timeout
  /\ OutcomeKind(Outcome) = "Failure"

\* ----------------------------------------------------------------------- C17
\* C17: check_url always terminates, also on a cyclic redirect chain: in
\* every reachable state the counter of followed redirects is at most
\* max(maxRedirects, 0), one call issues at most max(maxRedirects, 0) + 1
\* requests, no request is issued after a transport failure or after any
\* response that makes check_url return, and every call in progress returns
\* or raises.
C17_Limit == Max(config.max_redirects, 0)

C17_Bounded ==
  /\ pc \in {"http", "https"} =>
       /\ redirects_followed <= C17_Limit
       /\ Len(hopLog) = redirects_followed
       /\ \A k \in 1 .. Len(hopLog) : SameSchemeRedirect(hopLog[k], pc)
  /\ Returned =>
       /\ Call.followed <= C17_Limit
       /\ Len(Call.requests) <= C17_Limit + 1
       /\ \A k \in 1 .. Len(Call.requests) - 1 :
            SameSchemeRedirect(Call.requests[k], Call.scheme)

C17_Terminates ==
  /\ [](C17_Bounded)
  /\ (pc \in {"http", "https"}) ~> (Returned \/ pc = "crashed")

C17_Witness ==
  /\ Returned
  /\ config.max_redirects = 1
  /\ Len(Call.requests) = 2
  /\ SameSchemeRedirect(LastRequest, Call.scheme)
  /\ Target(LastRequest) = Call.start

\* ----------------------------------------------------------------------- C18
\* C18: within one check_url call every URL that is requested has the scheme
\* of the initial URL, so the verify argument is the same on every hop and
\* the forced scheme is never left.
C18_SameScheme(requests, scheme) ==
  \A k \in 1 .. Len(requests) :
    /\ requests[k].url.scheme = scheme
    /\ requests[k].verify = requests[1].verify

C18_SchemeNeverLeft ==
  /\ pc \in {"http", "https"} =>
       /\ initial_scheme = pc
       /\ current_url.scheme = initial_scheme
       /\ C18_SameScheme(hopLog, initial_scheme)
  /\ Returned =>
       /\ Call.start.scheme = Call.scheme
       /\ C18_SameScheme(Call.requests, Call.scheme)

C18_Witness ==
  /\ Returned
  /\ Len(Call.requests) = 2
  /\ CrossSchemeRedirect(LastRequest, Call.scheme)
  /\ Call.result.final_url.scheme # Call.scheme
  /\ C18_SameScheme(Call.requests, Call.scheme)

\* ----------------------------------------------------------------------- C19
\* C19: the report has exactly one case per outcome, in outcome order; the
\* suite time is the sum of the outcome durations; every property key is in
\* the suite at most once, with the value of the first outcome that carries
\* the key, so with several URLs the url and hostname of a URL after the
\* first are not in the report.
RECURSIVE C19_Total(_)
C19_Total(n) == IF n = 0 THEN 0 ELSE C19_Total(n - 1) + results[n].duration

C19_Carriers(key) == {k \in 1 .. Len(results) : HasKey(results[k].properties, key)}

C19_First(key) ==
  CHOOSE k \in C19_Carriers(key) : \A j \in C19_Carriers(key) : k <= j

C19_OneCasePerOutcome ==
  pc = "done" =>
    LET rep == report[1]
    IN /\ Len(report) = 1
       /\ Len(rep.cases) = Len(results)
       /\ \A k \in 1 .. Len(results) :
            /\ rep.cases[k].name = results[k].case_name
            /\ rep.cases[k].time = results[k].duration
       /\ rep.time = C19_Total(Len(results))
       /\ \A i, j \in 1 .. Len(rep.properties) :
            rep.properties[i][1] = rep.properties[j][1] => i = j
       /\ \A i \in 1 .. Len(rep.properties) :
            LET key == rep.properties[i][1]
            IN /\ C19_Carriers(key) # {}
               /\ rep.properties[i][2] =
                    C13_Value(results[C19_First(key)].properties, key)
       /\ \A k \in 1 .. Len(results) : \A j \in 1 .. Len(results[k].properties) :
            HasKey(rep.properties, results[k].properties[j][1])
       /\ \A u \in 2 .. Len(config.urls) :
            /\ config.urls[u] # config.urls[1] =>
                 \A i \in 1 .. Len(rep.properties) :
                   rep.properties[i] # <<"url", config.urls[u]>>
            /\ Hostname(config.urls[u]) # Hostname(config.urls[1]) =>
                 \A i \in 1 .. Len(rep.properties) :
                   rep.properties[i] # <<"hostname", Hostname(config.urls[u])>>

C19_Witness ==
  /\ pc = "done"
  /\ config.urls = <<UA, UN>>
  /\ Len(results) = 6
  /\ Len(report[1].cases) = 6
  /\ report[1].time = 2
  /\ C13_Value(report[1].properties, "url") = UA
  /\ Len(report[1].properties) = 3

\* ----------------------------------------------------------------------- C20
C20_Failed(o) == Truthy(o.failure_message) \/ o.error # None

C20_TestVariableExists ==
  \E i \in 1 .. Len(EchoKeys) :
    /\ echo_env.values[i] # NoneValue
    /\ Len(EchoKeys[i]) >= 5
    /\ EchoKeys[i][1] = "T" /\ EchoKeys[i][2] = "E" /\ EchoKeys[i][3] = "S"
    /\ EchoKeys[i][4] = "T" /\ EchoKeys[i][5] = "_"

\* C20, as stated: whenever TS_NAME is set, get_env_test is run (its outcome
\* is not Skipped).
C20_SetMeansRun ==
  (echo_pc = "done" /\ echo_env.TS_NAME # NoneValue) =>
    /\ ~echo_results[1].skipped
    /\ echo_calls # <<>>

\* C20, amended: the echo worker always produces exactly two outcomes, in the
\* order get_env_test, check_emptiness_test; both are Skipped when TS_NAME is
\* not set or empty; when TS_NAME is a non-empty string get_env_test is run,
\* and check_emptiness_test is run only if get_env_test has neither a failure
\* nor an error, else it is Skipped; get_env_test fails exactly when no
\* variable with the prefix TEST_ exists.
C20_TwoOutcomes ==
  /\ echo_pc = "check_emptiness" =>
       /\ echo_env.TS_NAME \notin {NoneValue, <<>>}
       /\ echo_calls = <<"get_env_test">>
       /\ ~C20_Failed(result_get_env[1])
  /\ echo_pc = "done" =>
       /\ Len(echo_results) = 2
       /\ echo_results[1].case_name = Str("get_env_test")
       /\ echo_results[2].case_name = Str("check_emptiness_test")
       /\ Len(echo_report) = 1
       /\ Len(echo_report[1].cases) = 2
       /\ \A k \in 1 .. 2 : echo_report[1].cases[k].name = echo_results[k].case_name
       /\ IF echo_env.TS_NAME \in {NoneValue, <<>>}
          THEN /\ echo_results[1].skipped /\ echo_results[2].skipped
               /\ echo_calls = <<>>
          ELSE /\ ~echo_results[1].skipped
               /\ Truthy(echo_results[1].failure_message) = ~C20_TestVariableExists
               /\ IF C20_Failed(echo_results[1])
                  THEN echo_results[2].skipped /\ echo_calls = <<"get_env_test">>
                  ELSE /\ ~echo_results[2].skipped
                       /\ echo_calls = <<"get_env_test", "check_emptiness_test">>

C20_Witness ==
  /\ echo_pc = "done"
  /\ echo_env.TS_NAME = <<"s">>
  /\ echo_env.values[4] # NoneValue
  /\ \A i \in 1 .. 3 : echo_env.values[i] = NoneValue
  /\ echo_report[1].cases[1].kind = "Failure"
  /\ echo_report[1].cases[2].kind = "Skipped"
====
